---- MODULE Spec2Model ----
(***************************************************************************)
(* agent-mst: the ClaudeStateMachine entity, its instruction pass, the     *)
(* oracle policy (getNextState / getDefaultNextState) and the two run      *)
(* loops (oracle-driven in index.ts, table-driven in                       *)
(* agent-state-machine.ts), with JavaScript's run-to-completion            *)
(* scheduling: a call stack of synchronously running async functions, a    *)
(* FIFO microtask queue, and macrotasks (timer, oracle response, queryAI   *)
(* completion) that run only when both are empty.                          *)
(***************************************************************************)
EXTENDS Integers, Sequences, FiniteSets, TLC

VARIABLES
    cfg,            \* the StateMachineConfig and which program drives the machine
    state,          \* ClaudeStateMachine.state
    visitedStates,  \* ClaudeStateMachine.visitedStates
    data,           \* ClaudeStateMachine.data
    loop,           \* the runStateMachine invocation (or the embedding caller)
    passes,         \* the executeInstructions invocations, by slot
    stack,          \* call stack: task ids running synchronously, caller first
    mq,             \* microtask queue: task ids whose await has settled
    ev,             \* the transition() call made by the last step, if any
    iterTrans,      \* callers of the successful transition() calls since the
                    \* run loop last evaluated goalReached(), in order
    unhandled,      \* a fire-and-forget pass has rejected
    skipped,        \* a rejected pass left an instruction whose condition held
    passRun,        \* executeInstructions() has been called since the machine
                    \* entered its current state (or was constructed in it)
    fallbackMoves   \* the run loop's transitions so far (counted up to the
                    \* length of possibleStates) while getNextState has fallen
                    \* back on every response; -1 once it has accepted one

vars == <<cfg, state, visitedStates, data, loop, passes, stack, mq, ev,
          iterTrans, unhandled, skipped, passRun, fallbackMoves>>

\* ------------------------------------------------------------------ bounds

\* executeInstructions invocations that may be unfinished at the same time
MaxPasses == 2
\* entries of problemState.learnings
MaxLearnings == 2

LoopId == 0
PassIds == 1..MaxPasses

\* ------------------------------------------------------------------ values

\* A JavaScript value of the data bag: undefined, a string, true, or the
\* ProblemState object (s is then its problemDescription).
Undefined ==
    [t |-> "undefined", s |-> "", arr |-> TRUE, plan |-> <<>>,
     results |-> <<>>, learnings |-> <<>>]

Str(x) == [Undefined EXCEPT !.t = "string", !.s = x]

True == [Undefined EXCEPT !.t = "boolean", !.s = "true"]

\* { problemDescription, currentPlan: [], executionResults: [], learnings: [] }
NewProblemState(desc) == [Undefined EXCEPT !.t = "object", !.s = desc]

\* JavaScript truthiness of a value: !v
Falsy(v) == v.t = "undefined" \/ (v.t = "string" /\ v.s = "")

Keys ==
    {"issueIdentified", "escalationReason", "initialProblem", "problemState",
     "problemAnalysis", "resultEvaluation", "k1", "k2"}

\* data = {} is a plain object: the property name "__proto__" is not a key of
\* the bag but the accessor of its prototype, initially Object.prototype
ProtoKey == "__proto__"

ObjectPrototype == [Undefined EXCEPT !.t = "prototype"]

Slots == Keys \cup {ProtoKey}

EmptyData == [k \in Slots |-> IF k = ProtoKey THEN ObjectPrototype ELSE Undefined]

\* texts queryAI may answer
QueryTexts == {"", "t", "problem solved"}

\* ------------------------------------------------------------------ configurations

Ins(at, unless, act, arg) == [at |-> at, unless |-> unless, act |-> act, arg |-> arg]

\* index.ts createStateMachine("customerSupport")
CustomerSupportStates ==
    <<"Initial Contact", "Troubleshooting", "Escalation", "Resolution", "Follow-up">>

CustomerSupportInstructions ==
    << Ins("Troubleshooting", "issueIdentified", "set", "issueIdentified"),
       Ins("Escalation", "escalationReason", "set", "escalationReason") >>

\* agent-state-machine.ts createProblemSolvingStateMachine
ProblemSolvingStates ==
    <<"ProblemAnalysis", "PlanFormulation", "PlanExecution",
      "ResultEvaluation", "KnowledgeIntegration", "ProblemReformulation">>

ProblemSolvingInstructions ==
    << Ins("ProblemAnalysis", "none", "analysis", "none"),
       Ins("PlanFormulation", "none", "plan", "none"),
       Ins("PlanExecution", "none", "execute", "none"),
       Ins("ResultEvaluation", "none", "evaluate", "none"),
       Ins("KnowledgeIntegration", "none", "integrate", "none"),
       Ins("ProblemReformulation", "none", "reformulate", "ProblemAnalysis") >>

\* mutant: the literal has no entry for the last state of the cycle
stateTransitionsOpenEnded ==
    [s \in {ProblemSolvingStates[i] : i \in 1..Len(ProblemSolvingStates)}
            \ {"ProblemReformulation"} |->
        CASE s = "ProblemAnalysis" -> "PlanFormulation"
          [] s = "PlanFormulation" -> "PlanExecution"
          [] s = "PlanExecution" -> "ResultEvaluation"
          [] s = "ResultEvaluation" -> "KnowledgeIntegration"
          [] s = "KnowledgeIntegration" -> "ProblemReformulation"]

\* the stateTransitions literal of agent-state-machine.ts runStateMachine
stateTransitions ==
    [s \in {ProblemSolvingStates[i] : i \in 1..Len(ProblemSolvingStates)} |->
        CASE s = "ProblemAnalysis" -> "PlanFormulation"
          [] s = "PlanFormulation" -> "PlanExecution"
          [] s = "PlanExecution" -> "ResultEvaluation"
          [] s = "ResultEvaluation" -> "KnowledgeIntegration"
          [] s = "KnowledgeIntegration" -> "ProblemReformulation"
          [] s = "ProblemReformulation" -> "ProblemAnalysis"]

\* original_idea.ts createStateMachine("ecommercePurchase")
EcommerceStates ==
    <<"Browsing", "Add to Cart", "Checkout", "Payment", "Order Confirmation">>

\* original_idea.ts createStateMachine("softwareDevelopment")
SoftwareStates ==
    <<"Requirements Gathering", "Design", "Implementation", "Testing",
      "Deployment", "Maintenance">>

\* Instruction lists a caller of the library may configure (types.d.ts
\* Instruction): synchronous actions that set a key, call transition() with a
\* legal or an illegal target, or throw
SyncInstructions ==
    << Ins("B", "none", "goto", "C"),
       Ins("C", "k1", "set", "k1"),
       Ins("C", "none", "goto", "Z"),
       Ins("A", "none", "throw", "none"),
       Ins("A", "k2", "set", "k2") >>

\* ... and actions that suspend on asynchronous work before they act
AsyncInstructions ==
    << Ins("B", "none", "ioSet", "k1"),
       Ins("C", "none", "ioGoto", "A"),
       Ins("A", "k2", "set", "k2") >>

\* an action that leaves the states the table loop's stateTransitions knows
UnchartedInstructions ==
    << Ins("PlanFormulation", "none", "goto", "Archived") >>

Config(name, driver, class, init, states, goal, goalArg, instrs, problem) ==
    [name |-> name, driver |-> driver, class |-> class, initialState |-> init,
     possibleStates |-> states, goal |-> goal, goalArg |-> goalArg,
     instructions |-> instrs, initialProblem |-> problem]

\* The machines the repository builds, and machines a user of the library may
\* build from the same configuration type.
\* class: "index" is src/claude-state-machine.ts (transition() starts an
\* instruction pass), "agent" the class of agent-state-machine.ts, "original"
\* the class of original_idea.ts (no instructions).
\* driver: "oracle" is runStateMachine of index.ts / original_idea.ts, "table"
\* runStateMachine of agent-state-machine.ts, "api" a caller of the exported
\* class and getNextState.
Scenarios ==
    { Config("customerSupport", "oracle", "index", "Initial Contact",
             CustomerSupportStates, "hasVisited", "Resolution",
             CustomerSupportInstructions, ""),
      Config("problemSolving", "table", "agent", "ProblemAnalysis",
             ProblemSolvingStates, "solved", "none",
             ProblemSolvingInstructions, "p"),
      Config("problemSolvingNoProblem", "table", "agent", "ProblemAnalysis",
             ProblemSolvingStates, "solved", "none",
             ProblemSolvingInstructions, ""),
      Config("ecommercePurchase", "oracle", "original", "Browsing",
             EcommerceStates, "hasVisited", "Order Confirmation", <<>>, ""),
      Config("softwareDevelopment", "oracle", "original", "Requirements Gathering",
             SoftwareStates, "hasVisited", "Deployment", <<>>, ""),
      Config("syncOracle", "oracle", "index", "A", <<"A", "B", "C">>,
             "never", "none", SyncInstructions, ""),
      Config("asyncOracle", "oracle", "index", "B", <<"A", "B", "C">>,
             "never", "none", AsyncInstructions, ""),
      Config("syncTable", "table", "agent", "A", <<"A", "B", "C">>,
             "hasVisited", "C", SyncInstructions, ""),
      Config("uncharted", "table", "agent", "ProblemAnalysis",
             <<"ProblemAnalysis", "PlanFormulation", "Archived">>,
             "never", "none", UnchartedInstructions, ""),
      Config("truncated", "table", "agent", "ProblemAnalysis",
             <<"ProblemAnalysis", "PlanFormulation">>, "never", "none", <<>>, ""),
      Config("syncApiIndex", "api", "index", "A", <<"A", "B", "C">>,
             "hasVisited", "C", SyncInstructions, ""),
      Config("syncApiAgent", "api", "agent", "B", <<"C", "A", "B">>,
             "flag", "k1", SyncInstructions, ""),
      Config("asyncApiIndex", "api", "index", "A", <<"B", "A", "C">>,
             "hasVisited", "C", AsyncInstructions, ""),
      Config("arrivedOracle", "oracle", "index", "A", <<"A", "B", "C">>,
             "hasVisited", "A", SyncInstructions, ""),
      Config("arrivedTable", "table", "agent", "ProblemAnalysis",
             ProblemSolvingStates, "hasVisited", "ProblemAnalysis",
             ProblemSolvingInstructions, "p"),
      Config("arrivedOriginal", "oracle", "original", "Browsing",
             EcommerceStates, "hasVisited", "Browsing", <<>>, "") }

\* ------------------------------------------------------------------ pure functions

\* Array.prototype.includes
Includes(seq, x) == \E i \in 1..Len(seq) : seq[i] = x

Range(seq) == {seq[i] : i \in 1..Len(seq)}

\* A text is a sequence of tokens: a state label, a whitespace token (" " or
\* "\n") or any other word. The label L as a string is the text <<L>>.
IsSpace(tok) == tok \in {" ", "\n"}

RECURSIVE TrimStart(_)
TrimStart(text) ==
    IF text # <<>> /\ IsSpace(Head(text)) THEN TrimStart(Tail(text)) ELSE text

RECURSIVE TrimEnd(_)
TrimEnd(text) ==
    IF text # <<>> /\ IsSpace(text[Len(text)])
    THEN TrimEnd(SubSeq(text, 1, Len(text) - 1))
    ELSE text

\* String.prototype.trim
Trim(text) == TrimEnd(TrimStart(text))

\* Array.prototype.toString of message.content, an array of content-block
\* objects: each block prints as "[object Object]", joined by ","
RECURSIVE ContentToString(_)
ContentToString(content) ==
    IF content = <<>> THEN <<>>
    ELSE IF Len(content) = 1 THEN <<"[object Object]">>
    ELSE <<"[object Object]", ",">> \o ContentToString(Tail(content))

\* state-handlers.ts: message.content.at(0)!['text']
ExtractText(content) == content[1]

\* original_idea.ts: message.content.toString().trim()
ExtractOriginal(content) == Trim(ContentToString(content))

\* mutant: the resolver takes the last unvisited state
getDefaultNextStateLast(possibleStates, visited) ==
    LET unvisitedStates == SelectSeq(possibleStates, LAMBDA s : s \notin visited)
    IN  IF Len(unvisitedStates) > 0 THEN unvisitedStates[Len(unvisitedStates)]
        ELSE possibleStates[1]

\* mutant: the resolver always returns possibleStates[0]
getDefaultNextStateFirst(possibleStates, visited) == possibleStates[1]

\* getDefaultNextState: first unvisited possible state, else possibleStates[0]
getDefaultNextState(possibleStates, visited) ==
    LET unvisitedStates == SelectSeq(possibleStates, LAMBDA s : s \notin visited)
    IN  IF Len(unvisitedStates) > 0 THEN unvisitedStates[1] ELSE possibleStates[1]

\* mutant: the candidate is not compared with the current state
ValidateNextStateNoSelfCheck(nextState, currentState, possibleStates, visited) ==
    IF /\ Len(nextState) = 1
       /\ Includes(possibleStates, nextState[1])
    THEN nextState[1]
    ELSE getDefaultNextState(possibleStates, visited)

\* mutant: the candidate is not looked up in possibleStates
ValidateNextStateNoCatalogCheck(nextState, currentState, possibleStates, visited) ==
    IF /\ Len(nextState) = 1
       /\ nextState[1] # currentState
    THEN nextState[1]
    ELSE getDefaultNextState(possibleStates, visited)

\* the return expression of getNextState: nextState is the extracted text,
\* currentState the machine's state when getNextState was entered
ValidateNextState(nextState, currentState, possibleStates, visited) ==
    IF /\ Len(nextState) = 1
       /\ Includes(possibleStates, nextState[1])
       /\ nextState[1] # currentState
    THEN nextState[1]
    ELSE getDefaultNextState(possibleStates, visited)

\* getNextState, from the oracle's message on
getNextState(class, content, currentState, possibleStates, visited) ==
    ValidateNextState(
        IF class = "original" THEN ExtractOriginal(content) ELSE ExtractText(content),
        currentState, possibleStates, visited)

\* the goalPredicate of a configuration; hasMachine is whether goalReached()
\* hands the machine to it (agent-state-machine.ts does, the others do not)
GoalPredicate(kind, arg, visited, d, hasMachine) ==
    CASE kind = "hasVisited" -> arg \in visited
      [] kind = "flag" -> hasMachine /\ ~Falsy(d[arg])
      [] kind = "solved" ->
            /\ hasMachine
            /\ d["problemState"].t = "object"
            /\ \E i \in 1..Len(d["problemState"].learnings) :
                    d["problemState"].learnings[i] = "problem solved"
      [] OTHER -> FALSE

\* mutant: the initial state does not count as visited
goalReachedIgnoresInitial ==
    GoalPredicate(cfg.goal, cfg.goalArg, visitedStates \ {cfg.initialState}, data,
                  cfg.class = "agent")

goalReached == GoalPredicate(cfg.goal, cfg.goalArg, visitedStates, data, cfg.class = "agent")

\* texts the oracle may answer for a catalog: every label, a label with
\* surrounding whitespace, a label followed by more lines, nothing, and a
\* label outside the catalog
OracleTexts(possibleStates) ==
    {<<possibleStates[i]>> : i \in 1..Len(possibleStates)}
    \cup { <<>>, <<"Z">>,
           <<" ", possibleStates[Len(possibleStates)], "\n">>,
           <<possibleStates[Len(possibleStates)], "\n", "because">> }

\* ------------------------------------------------------------------ instruction actions

Instrs == cfg.instructions

\* mutant: the condition looks at the state only, not at the data key
CondIgnoresData(j, st, d) ==
    Instrs[j].at = st

\* instruction.condition(machine)
Cond(j, st, d) ==
    /\ Instrs[j].at = st
    /\ (Instrs[j].unless = "none" \/ Falsy(d[Instrs[j].unless]))

\* mutant: the pass runs the next instruction whatever its condition says
NextApplicableUnconditional(i, st, d) ==
    IF i <= Len(Instrs) THEN i ELSE Len(Instrs) + 1

\* the first instruction from index i on whose condition holds (Len + 1: none)
NextApplicable(i, st, d) ==
    LET hits == {j \in i..Len(Instrs) : Cond(j, st, d)}
    IN  IF hits = {} THEN Len(Instrs) + 1
        ELSE CHOOSE j \in hits : \A k \in hits : j <= k

\* the value a synchronous "set" action stores under its key
SetValue(key) ==
    IF key = "escalationReason"
    THEN Str("Complex technical issue beyond initial support scope")
    ELSE True

\* problemState?.currentPlan.length > 0
PlanNonEmpty(ps) == ps.t = "object" /\ ps.arr /\ Len(ps.plan) > 0

\* An action up to its first await: "io" when it suspends on queryAI (or on
\* its own asynchronous work), "return" when it returns before that.
ActionPre(act, d) ==
    CASE act = "analysis" ->
            IF Falsy(d["initialProblem"]) THEN "return" ELSE "io"
      [] act = "plan" ->
            IF Falsy(d["problemState"]) \/ Falsy(d["problemAnalysis"])
            THEN "return" ELSE "io"
      [] act = "execute" ->
            IF PlanNonEmpty(d["problemState"]) THEN "io" ELSE "return"
      [] OTHER -> "io"

\* the data after the part of the action before its await
\* (PlanExecution: currentPlan.shift() on the stored object)
ActionPreData(act, d) ==
    IF act = "execute" /\ PlanNonEmpty(d["problemState"])
    THEN [d EXCEPT !["problemState"].plan = Tail(@)]
    ELSE d

\* The action after its await returned r. out is "ret" when the action
\* returns, "call" when it goes on to call transition(arg), "throw" when it
\* raises (the TypeError of problemState.problemDescription = ... on undefined).
ActionPost(act, arg, d, r) ==
    LET ps == d["problemState"] IN
    CASE act = "analysis" ->
            [d |-> [d EXCEPT !["problemState"] = NewProblemState(d["initialProblem"].s),
                             !["problemAnalysis"] = Str(r)],
             out |-> "ret"]
      [] act = "plan" ->
            [d |-> IF r # ""
                   THEN [d EXCEPT !["problemState"].arr = FALSE,
                                  !["problemState"].plan = <<r>>]
                   ELSE d,
             out |-> "ret"]
      [] act = "execute" ->
            [d |-> [d EXCEPT !["problemState"].results = Append(@, r)], out |-> "ret"]
      [] act = "evaluate" ->
            [d |-> [d EXCEPT !["resultEvaluation"] = Str(r)], out |-> "ret"]
      [] act = "integrate" ->
            [d |-> IF ps.t = "object"
                   THEN [d EXCEPT !["problemState"].learnings = Append(@, r)]
                   ELSE d,
             out |-> "ret"]
      [] act = "reformulate" ->
            IF ps.t = "object" /\ r = ps.s THEN [d |-> d, out |-> "ret"]
            ELSE IF ps.t # "object" THEN [d |-> d, out |-> "throw"]
            ELSE [d |-> [d EXCEPT !["problemState"].s = r], out |-> "call"]
      [] act = "ioSet" ->
            [d |-> [d EXCEPT ![arg] = SetValue(arg)], out |-> "ret"]
      [] OTHER -> [d |-> d, out |-> "call"]

\* what an action's asynchronous work may answer; "#fail" is its rejection
IoResults(act) ==
    IF act \in {"ioSet", "ioGoto"} THEN {"ok", "#fail"} ELSE QueryTexts \cup {"#fail"}

\* ------------------------------------------------------------------ tasks

Top == stack[Len(stack)]

Pop(stk) == SubSeq(stk, 1, Len(stk) - 1)

Running(id) == stack # <<>> /\ Top = id

\* no synchronous code is running and no microtask is pending: the event loop
\* takes the next macrotask
EventLoopIdle == stack = <<>> /\ mq = <<>>

IdlePass == [live |-> FALSE, i |-> 0, ph |-> "none", awaited |-> FALSE]

NewPass(awaited) == [live |-> TRUE, i |-> 1, ph |-> "scan", awaited |-> awaited]

HasFreeSlot == \E p \in PassIds : ~passes[p].live

FreeSlot == CHOOSE p \in PassIds : ~passes[p].live /\ \A q \in PassIds : ~passes[q].live => p <= q

NoEvent == [type |-> "none", target |-> "none", by |-> "none", ok |-> TRUE, val |-> Undefined]

\* an executeInstructions() invocation ended without running any action
NoOpPassEvent == [NoEvent EXCEPT !.type = "pass"]

TransitionEvent(t, by, ok) ==
    [NoEvent EXCEPT !.type = "transition", !.target = t, !.by = by, !.ok = ok]

\* the last step was the call setData(key, value)
SetDataEvent(key, value) == [NoEvent EXCEPT !.type = "setData", !.target = key, !.val = value]

\* mutant: transition() without its possibleStates.includes guard
TransitionAllowedUnguarded(newState) == newState = newState

\* transition(newState) guards on possibleStates.includes(newState)
TransitionAllowed(newState) == Includes(cfg.possibleStates, newState)

\* whether transition() goes on to call this.executeInstructions()
TransitionRunsInstructions == cfg.class = "index"

\* A pass p, running instruction j, leaves the call stack stk (p on top):
\*   "await"  - it awaits the action's settled promise and is queued
\*   "io"     - its action is suspended on asynchronous work
\*   "finish" - it ran off the end of the list
\*   "throw"  - its action raised: the pass rejects
LeaveStack(p, j, how, stk) ==
    /\ passes' = [passes EXCEPT ![p] =
            CASE how = "await" -> [@ EXCEPT !.i = j + 1, !.ph = "scan"]
              [] how = "io" -> [@ EXCEPT !.i = j, !.ph = "io"]
              [] OTHER -> IdlePass]
    /\ stack' = Pop(stk)
    /\ mq' = CASE how = "await" -> Append(mq, p)
               [] how = "finish" /\ passes[p].awaited -> Append(mq, LoopId)
               [] OTHER -> mq
    /\ loop' = IF how = "throw" /\ passes[p].awaited
               THEN [loop EXCEPT !.pc = "threw", !.err = "instruction"]
               ELSE loop
    /\ unhandled' = (unhandled \/ (how = "throw" /\ ~passes[p].awaited))
    /\ skipped' = (skipped \/ (how = "throw"
                               /\ NextApplicable(j + 1, state, data) <= Len(Instrs)))

\* executeInstructions, running: from instruction i on, skip the instructions
\* whose condition fails and start the action of the first whose condition holds
PassScan(p) ==
    /\ Running(p)
    /\ passes[p].ph = "scan"
    /\ LET j == NextApplicable(passes[p].i, state, data)
           act == IF j <= Len(Instrs) THEN Instrs[j].act ELSE "none"
       IN  CASE j > Len(Instrs) ->
                    /\ LeaveStack(p, j, "finish", stack)
                    /\ data' = data
             [] act = "set" ->
                    /\ LeaveStack(p, j, "await", stack)
                    /\ data' = [data EXCEPT ![Instrs[j].arg] = SetValue(Instrs[j].arg)]
             [] act = "throw" ->
                    /\ LeaveStack(p, j, "throw", stack)
                    /\ data' = data
             [] act = "goto" ->
                    /\ passes' = [passes EXCEPT ![p].i = j, ![p].ph = "call"]
                    /\ UNCHANGED <<data, stack, mq, loop, unhandled, skipped>>
             [] OTHER ->
                    /\ LeaveStack(p, j, IF ActionPre(act, data) = "io" THEN "io" ELSE "await",
                                  stack)
                    /\ data' = ActionPreData(act, data)
    /\ ev' = IF passes[p].i = 1 /\ NextApplicable(1, state, data) > Len(Instrs)
             THEN NoOpPassEvent
             ELSE NoEvent
    /\ UNCHANGED <<cfg, fallbackMoves, passRun, state, visitedStates, iterTrans>>

\* mutant: transition() records the target as visited before it checks it
TransitionVisitsBeforeCheck(t, by) ==
    IF TransitionAllowed(t)
    THEN /\ state' = t
         /\ visitedStates' = visitedStates \cup {t}
         /\ ev' = TransitionEvent(t, by, TRUE)
         /\ iterTrans' = IF cfg.driver = "api" THEN <<>> ELSE Append(iterTrans, by)
    ELSE /\ visitedStates' = visitedStates \cup {t}
         /\ UNCHANGED <<state, iterTrans>>
         /\ ev' = TransitionEvent(t, by, FALSE)

\* mutant: transition() replaces visitedStates instead of adding to it
TransitionResetsVisited(t, by) ==
    IF TransitionAllowed(t)
    THEN /\ state' = t
         /\ visitedStates' = {t}
         /\ ev' = TransitionEvent(t, by, TRUE)
         /\ iterTrans' = IF cfg.driver = "api" THEN <<>> ELSE Append(iterTrans, by)
    ELSE /\ UNCHANGED <<state, visitedStates, iterTrans>>
         /\ ev' = TransitionEvent(t, by, FALSE)

\* mutant: transition() does not record the state it enters as visited
TransitionForgetsVisit(t, by) ==
    IF TransitionAllowed(t)
    THEN /\ state' = t
         /\ visitedStates' = visitedStates
         /\ ev' = TransitionEvent(t, by, TRUE)
         /\ iterTrans' = IF cfg.driver = "api" THEN <<>> ELSE Append(iterTrans, by)
    ELSE /\ UNCHANGED <<state, visitedStates, iterTrans>>
         /\ ev' = TransitionEvent(t, by, FALSE)

\* the body of transition(t), called by the task on top of the stack
\* (by: "loop" or "action")
Transition(t, by) ==
    IF TransitionAllowed(t)
    THEN /\ state' = t
         /\ visitedStates' = visitedStates \cup {t}
         /\ ev' = TransitionEvent(t, by, TRUE)
         /\ iterTrans' = IF cfg.driver = "api" THEN <<>> ELSE Append(iterTrans, by)
    ELSE /\ UNCHANGED <<state, visitedStates, iterTrans>>
         /\ ev' = TransitionEvent(t, by, FALSE)

\* an instruction action calls machine.transition(arg)
PassCall(p) ==
    /\ Running(p)
    /\ passes[p].ph = "call"
    /\ LET t == Instrs[passes[p].i].arg IN
        /\ Transition(t, "action")
        /\ IF ~TransitionAllowed(t)
           THEN LeaveStack(p, passes[p].i, "throw", stack)
           ELSE IF TransitionRunsInstructions
           THEN /\ HasFreeSlot
                /\ passes' = [passes EXCEPT ![p].ph = "ret", ![FreeSlot] = NewPass(FALSE)]
                /\ stack' = Append(stack, FreeSlot)
                /\ UNCHANGED <<mq, loop, unhandled, skipped>>
           ELSE /\ passes' = [passes EXCEPT ![p].ph = "ret"]
                /\ UNCHANGED <<stack, mq, loop, unhandled, skipped>>
        /\ passRun' = IF TransitionAllowed(t) THEN TransitionRunsInstructions ELSE passRun
    /\ UNCHANGED <<cfg, fallbackMoves, data>>

\* transition() has returned to the action, which returns; the pass awaits
\* the action's promise
PassRet(p) ==
    /\ Running(p)
    /\ passes[p].ph = "ret"
    /\ LeaveStack(p, passes[p].i, "await", stack)
    /\ ev' = NoEvent
    /\ UNCHANGED <<cfg, fallbackMoves, passRun, state, visitedStates, data, iterTrans>>

\* the asynchronous work of p's action completes with r and the action resumes
IoComplete(p, r) ==
    /\ EventLoopIdle
    /\ passes[p].live
    /\ passes[p].ph = "io"
    /\ LET j == passes[p].i
           act == Instrs[j].act
           post == ActionPost(act, Instrs[j].arg, data, r)
       IN  /\ r \in IoResults(act)
           /\ act = "integrate" /\ data["problemState"].t = "object"
                => Len(data["problemState"].learnings) < MaxLearnings
           /\ IF r = "#fail" \/ post.out = "throw"
              THEN /\ LeaveStack(p, j, "throw", <<p>>)
                   /\ data' = data
              ELSE IF post.out = "ret"
              THEN /\ LeaveStack(p, j, "await", <<p>>)
                   /\ data' = post.d
              ELSE /\ passes' = [passes EXCEPT ![p].ph = "call"]
                   /\ stack' = <<p>>
                   /\ data' = post.d
                   /\ UNCHANGED <<mq, loop, unhandled, skipped>>
    /\ ev' = NoEvent
    /\ UNCHANGED <<cfg, fallbackMoves, passRun, state, visitedStates, iterTrans>>

\* the event loop runs the next microtask
Resume ==
    /\ stack = <<>>
    /\ mq # <<>>
    /\ stack' = <<Head(mq)>>
    /\ mq' = Tail(mq)
    /\ ev' = NoEvent
    /\ UNCHANGED <<cfg, fallbackMoves, passRun, state, visitedStates, data, loop, passes, iterTrans,
                   unhandled, skipped>>

\* ------------------------------------------------------------------ run loops

\* cur, seen: machine.state and machine.visitedStates as getNextState read them
\* report: what the loop logs when it is left ("goal": "Goal reached. ...")
NewLoop(pc) ==
    [pc |-> pc, arg |-> "none", cur |-> "none", seen |-> {}, cand |-> <<>>,
     err |-> "none", report |-> "none"]

\* the statements after the while loop: the table loop and original_idea.ts
\* log "Goal reached. ...", index.ts logs nothing
ExitReport == IF cfg.driver = "table" \/ cfg.class = "original" THEN "goal" ELSE "none"

\* agent-state-machine.ts runStateMachine, before its loop:
\* if (initialProblem) machine.setData("initialProblem", initialProblem)
LoopStart ==
    /\ Running(LoopId)
    /\ loop.pc = "start"
    /\ data' = IF cfg.initialProblem # ""
               THEN [data EXCEPT !["initialProblem"] = Str(cfg.initialProblem)]
               ELSE data
    /\ loop' = [loop EXCEPT !.pc = "check"]
    /\ ev' = NoEvent
    /\ UNCHANGED <<cfg, fallbackMoves, passRun, state, visitedStates, passes, stack, mq, iterTrans,
                   unhandled, skipped>>

\* while (!machine.goalReached()): the loop ends, or goes on to its first
\* await: the timer (oracle loop) or executeInstructions() (table loop), whose
\* pass runs to its own first await before the loop's await takes effect
GoalCheck ==
    /\ Running(LoopId)
    /\ loop.pc = "check"
    /\ iterTrans' = <<>>
    /\ ev' = NoEvent
    /\ IF goalReached
       THEN /\ loop' = [loop EXCEPT !.pc = "done", !.report = ExitReport]
            /\ stack' = Pop(stack)
            /\ passes' = passes
       ELSE IF cfg.driver = "oracle"
       THEN /\ loop' = [loop EXCEPT !.pc = "timer"]
            /\ stack' = Pop(stack)
            /\ passes' = passes
       ELSE /\ HasFreeSlot
            /\ loop' = [loop EXCEPT !.pc = "exec"]
            /\ passes' = [passes EXCEPT ![FreeSlot] = NewPass(TRUE)]
            /\ stack' = Append(Pop(stack), FreeSlot)
    /\ passRun' = (passRun \/ (~goalReached /\ cfg.driver # "oracle"))
    /\ UNCHANGED <<cfg, fallbackMoves, state, visitedStates, data, mq, unhandled, skipped>>

\* the 1000 ms timer fires and getNextState starts: it reads machine.state,
\* builds the prompt and sends the request
TimerFire ==
    /\ EventLoopIdle
    /\ loop.pc = "timer"
    /\ loop' = [loop EXCEPT !.pc = "oracle", !.cur = state, !.seen = visitedStates]
    /\ ev' = NoEvent
    /\ UNCHANGED <<cfg, fallbackMoves, passRun, state, visitedStates, data, passes, stack, mq, iterTrans,
                   unhandled, skipped>>

\* getNextState's validation turns the response down: the extracted text is
\* not a member of possibleStates, or it is the current state
Rejected(class, content, currentState, possibleStates) ==
    LET nextState == IF class = "original" THEN ExtractOriginal(content)
                     ELSE ExtractText(content)
    IN  ~(/\ Len(nextState) = 1
          /\ Includes(possibleStates, nextState[1])
          /\ nextState[1] # currentState)

\* the oracle answers text and getNextState returns
OracleRespond(text) ==
    /\ EventLoopIdle
    /\ loop.pc = "oracle"
    /\ loop' = [loop EXCEPT
                  !.pc = "got",
                  !.cand = text,
                  !.arg = getNextState(cfg.class, <<text>>, loop.cur,
                                       cfg.possibleStates, visitedStates)]
    /\ stack' = <<LoopId>>
    /\ ev' = NoEvent
    /\ fallbackMoves' =
            IF cfg.driver = "oracle"
               /\ ~Rejected(cfg.class, <<text>>, loop.cur, cfg.possibleStates)
            THEN -1
            ELSE fallbackMoves
    /\ UNCHANGED <<cfg, passRun, state, visitedStates, data, passes, mq, iterTrans,
                   unhandled, skipped>>

\* claude.messages.create rejects: getNextState and its caller reject
OracleFail ==
    /\ EventLoopIdle
    /\ loop.pc = "oracle"
    /\ loop' = IF cfg.driver = "api" THEN NewLoop("idle")
               ELSE [loop EXCEPT !.pc = "threw", !.err = "oracle"]
    /\ stack' = IF cfg.driver = "api" THEN <<LoopId>> ELSE stack
    /\ ev' = NoEvent
    /\ UNCHANGED <<cfg, fallbackMoves, passRun, state, visitedStates, data, passes, mq, iterTrans,
                   unhandled, skipped>>

\* const nextState = await getNextState(machine): the caller has the state
LoopGot ==
    /\ Running(LoopId)
    /\ loop.pc = "got"
    /\ loop' = IF cfg.driver = "api" THEN NewLoop("idle") ELSE [loop EXCEPT !.pc = "call"]
    /\ ev' = NoEvent
    /\ UNCHANGED <<cfg, fallbackMoves, passRun, state, visitedStates, data, passes, stack, mq, iterTrans,
                   unhandled, skipped>>

\* mutant: a state without an entry is resolved by the fallback resolver
TableLookupFallsBack ==
    /\ Running(LoopId)
    /\ loop.pc = "exec"
    /\ loop' = [loop EXCEPT
                  !.pc = "call",
                  !.arg = IF state \in DOMAIN stateTransitions
                          THEN stateTransitions[state]
                          ELSE getDefaultNextState(cfg.possibleStates, visitedStates)]
    /\ stack' = stack
    /\ ev' = NoEvent
    /\ UNCHANGED <<cfg, fallbackMoves, passRun, state, visitedStates, data, passes, mq, iterTrans,
                   unhandled, skipped>>

\* the table loop after await machine.executeInstructions():
\* const nextState = stateTransitions[machine.state]; if (nextState) ... else
\* console.error(...), break, and the console.log after the loop
TableLookup ==
    /\ Running(LoopId)
    /\ loop.pc = "exec"
    /\ IF state \in DOMAIN stateTransitions
       THEN /\ loop' = [loop EXCEPT !.pc = "call", !.arg = stateTransitions[state]]
            /\ stack' = stack
       ELSE /\ loop' = [loop EXCEPT !.pc = "done", !.err = "nosucc",
                                    !.report = ExitReport]
            /\ stack' = Pop(stack)
    /\ ev' = NoEvent
    /\ UNCHANGED <<cfg, fallbackMoves, passRun, state, visitedStates, data, passes, mq, iterTrans,
                   unhandled, skipped>>

\* machine.transition(nextState), called by the loop (or by the embedding
\* caller, which catches the error)
LoopCall ==
    /\ Running(LoopId)
    /\ loop.pc = "call"
    /\ Transition(loop.arg, "loop")
    /\ IF ~TransitionAllowed(loop.arg)
       THEN /\ loop' = IF cfg.driver = "api" THEN NewLoop("idle")
                       ELSE [loop EXCEPT !.pc = "threw", !.err = "invalid"]
            /\ stack' = IF cfg.driver = "api" THEN stack ELSE Pop(stack)
            /\ passes' = passes
       ELSE IF TransitionRunsInstructions
       THEN /\ HasFreeSlot
            /\ loop' = [loop EXCEPT !.pc = "ret"]
            /\ passes' = [passes EXCEPT ![FreeSlot] = NewPass(FALSE)]
            /\ stack' = Append(stack, FreeSlot)
       ELSE /\ loop' = [loop EXCEPT !.pc = "ret"]
            /\ UNCHANGED <<passes, stack>>
    /\ passRun' = IF TransitionAllowed(loop.arg) THEN TransitionRunsInstructions ELSE passRun
    /\ fallbackMoves' =
            IF /\ cfg.driver = "oracle"
               /\ TransitionAllowed(loop.arg)
               /\ fallbackMoves >= 0
               /\ fallbackMoves < Len(cfg.possibleStates)
            THEN fallbackMoves + 1
            ELSE fallbackMoves
    /\ UNCHANGED <<cfg, data, mq, unhandled, skipped>>

\* transition() has returned to the loop
LoopRet ==
    /\ Running(LoopId)
    /\ loop.pc = "ret"
    /\ loop' = NewLoop(IF cfg.driver = "api" THEN "idle" ELSE "check")
    /\ ev' = NoEvent
    /\ UNCHANGED <<cfg, fallbackMoves, passRun, state, visitedStates, data, passes, stack, mq, iterTrans,
                   unhandled, skipped>>

\* ------------------------------------------------------------------ a caller of the library

\* labels a caller may hand to transition(): the catalog and one outside it
CallTargets == Range(cfg.possibleStates) \cup {"Z"}

ApiTransition(t) ==
    /\ cfg.driver = "api"
    /\ Running(LoopId)
    /\ loop.pc = "idle"
    /\ t \in CallTargets
    /\ loop' = [loop EXCEPT !.pc = "call", !.arg = t]
    /\ ev' = NoEvent
    /\ UNCHANGED <<cfg, fallbackMoves, passRun, state, visitedStates, data, passes, stack, mq, iterTrans,
                   unhandled, skipped>>

\* setData(key, value): this.data[key] = value. Assigning "__proto__" calls
\* the prototype setter, which takes an object and ignores any other value
setData(d, key, value) ==
    IF key = ProtoKey /\ value.t # "object" THEN d ELSE [d EXCEPT ![key] = value]

\* getData(key): this.data[key]
getData(d, key) == d[key]

ApiSetData(k, v) ==
    /\ cfg.driver = "api"
    /\ Running(LoopId)
    /\ loop.pc = "idle"
    /\ k \in {"k1", "k2", ProtoKey}
    /\ v \in {Undefined, True}
    /\ getData(data, k) # v
    /\ data' = setData(data, k, v)
    /\ ev' = SetDataEvent(k, v)
    /\ UNCHANGED <<cfg, fallbackMoves, passRun, state, visitedStates, loop, passes, stack, mq, iterTrans,
                   unhandled, skipped>>

\* machine.executeInstructions(), not awaited
ApiExecuteInstructions ==
    /\ cfg.driver = "api"
    /\ Running(LoopId)
    /\ loop.pc = "idle"
    /\ HasFreeSlot
    /\ passes' = [passes EXCEPT ![FreeSlot] = NewPass(FALSE)]
    /\ stack' = Append(stack, FreeSlot)
    /\ ev' = NoEvent
    /\ passRun' = TRUE
    /\ UNCHANGED <<cfg, fallbackMoves, state, visitedStates, data, loop, mq, iterTrans,
                   unhandled, skipped>>

\* await getNextState(machine)
ApiAsk ==
    /\ cfg.driver = "api"
    /\ Running(LoopId)
    /\ loop.pc = "idle"
    /\ loop' = [loop EXCEPT !.pc = "oracle", !.cur = state, !.seen = visitedStates]
    /\ stack' = Pop(stack)
    /\ ev' = NoEvent
    /\ UNCHANGED <<cfg, fallbackMoves, passRun, state, visitedStates, data, passes, mq, iterTrans,
                   unhandled, skipped>>

\* the caller awaits something else, and is resumed by a later macrotask
ApiYield ==
    /\ cfg.driver = "api"
    /\ Running(LoopId)
    /\ loop.pc = "idle"
    /\ loop' = [loop EXCEPT !.pc = "sleep"]
    /\ stack' = Pop(stack)
    /\ ev' = NoEvent
    /\ UNCHANGED <<cfg, fallbackMoves, passRun, state, visitedStates, data, passes, mq, iterTrans,
                   unhandled, skipped>>

ApiWake ==
    /\ EventLoopIdle
    /\ loop.pc = "sleep"
    /\ loop' = [loop EXCEPT !.pc = "idle"]
    /\ stack' = <<LoopId>>
    /\ ev' = NoEvent
    /\ UNCHANGED <<cfg, fallbackMoves, passRun, state, visitedStates, data, passes, mq, iterTrans,
                   unhandled, skipped>>

\* ------------------------------------------------------------------ specification

\* new ClaudeStateMachine(config), and the program that drives it about to run
Init ==
    /\ cfg \in Scenarios
    /\ state = cfg.initialState
    /\ visitedStates = {cfg.initialState}
    /\ data = EmptyData
    /\ loop = NewLoop(CASE cfg.driver = "table" -> "start"
                        [] cfg.driver = "api" -> "idle"
                        [] OTHER -> "check")
    /\ passes = [p \in PassIds |-> IdlePass]
    /\ stack = <<LoopId>>
    /\ mq = <<>>
    /\ ev = NoEvent
    /\ iterTrans = <<>>
    /\ unhandled = FALSE
    /\ skipped = FALSE
    /\ passRun = FALSE
    /\ fallbackMoves = 0

Next ==
    \/ \E p \in PassIds : PassScan(p)
    \/ \E p \in PassIds : PassCall(p)
    \/ \E p \in PassIds : PassRet(p)
    \/ \E p \in PassIds, r \in QueryTexts \cup {"ok", "#fail"} : IoComplete(p, r)
    \/ Resume
    \/ LoopStart
    \/ GoalCheck
    \/ TimerFire
    \/ \E text \in OracleTexts(cfg.possibleStates) : OracleRespond(text)
    \/ OracleFail
    \/ LoopGot
    \/ TableLookup
    \/ LoopCall
    \/ LoopRet
    \/ \E t \in CallTargets : ApiTransition(t)
    \/ \E k \in Slots, v \in {Undefined, True} : ApiSetData(k, v)
    \/ ApiExecuteInstructions
    \/ ApiAsk
    \/ ApiYield
    \/ ApiWake

Spec == Init /\ [][Next]_vars

TypeOK ==
    /\ cfg \in Scenarios
    /\ state \in STRING
    /\ loop.pc \in {"start", "check", "timer", "oracle", "got", "exec", "call", "ret",
                    "done", "threw", "idle", "sleep"}
    /\ \A p \in PassIds : passes[p].ph \in {"none", "scan", "io", "call", "ret"}

\* ------------------------------------------------------------------ claims

Catalog == Range(cfg.possibleStates)

\* C1: the current state is a member of possibleStates in every reachable
\* state, whatever transition() calls (legal or illegal targets), instruction
\* passes and run-loop steps have happened.
C1_CurrentStateInCatalog == state \in Catalog

\* C1 witness: an out-of-catalog transition() was just refused on a machine
\* that has already moved away from its initial state.
C1_Witness ==
    /\ ev.type = "transition"
    /\ ~ev.ok
    /\ ev.target \notin Catalog
    /\ state # cfg.initialState

\* the task that called transition() in this step has been thrown out of
WasThrown ==
    IF stack[Len(stack)] = LoopId
    THEN loop'.pc \in {"threw", "idle"}
    ELSE ~passes'[stack[Len(stack)]].live

\* C2: a transition() call whose target is outside possibleStates throws and
\* leaves the current state, visitedStates and the data bag as they were, and
\* starts no instruction pass.
C2_InvalidTransitionChangesNothing ==
    [][(ev'.type = "transition" /\ ev'.target \notin Catalog)
        => /\ ~ev'.ok
           /\ WasThrown
           /\ state' = state
           /\ visitedStates' = visitedStates
           /\ data' = data
           /\ \A p \in PassIds : passes'[p].live => passes[p].live]_vars

\* C2 witness: an illegal transition() was refused on a machine whose data bag
\* and visitedStates already hold something to lose.
C2_Witness ==
    /\ ev.type = "transition"
    /\ ev.target \notin Catalog
    /\ data # EmptyData
    /\ Cardinality(visitedStates) >= 2

\* C3 (as claimed): when transition(newState) with a legal newState returns to
\* its caller, the current state is newState and newState is visited.
C3_StateIsTargetOnReturn ==
    /\ (Running(LoopId) /\ loop.pc = "ret")
            => (state = loop.arg /\ loop.arg \in visitedStates)
    /\ \A p \in PassIds :
            (Running(p) /\ passes[p].ph = "ret")
                => (state = Instrs[passes[p].i].arg
                    /\ Instrs[passes[p].i].arg \in visitedStates)

\* C4: visitedStates never loses a member, and always holds the initial state
\* and the current state.
C4_VisitedMonotone ==
    /\ [][visitedStates \subseteq visitedStates']_vars
    /\ [](cfg.initialState \in visitedStates /\ state \in visitedStates)

\* C4 witness: the machine is back in its initial state after visiting at
\* least two other states.
C4_Witness ==
    /\ ev.type = "transition"
    /\ ev.ok
    /\ state = cfg.initialState
    /\ Cardinality(visitedStates) >= 3

\* the positions of possibleStates that are not visited
UnvisitedPositions == {i \in 1..Len(cfg.possibleStates) : cfg.possibleStates[i] \notin visitedStates}

\* the fallback as the specification words it: the unvisited entry at the
\* least position, possibleStates[0] when there is none
DeclaredOrderFallback ==
    IF UnvisitedPositions = {} THEN cfg.possibleStates[1]
    ELSE cfg.possibleStates[CHOOSE i \in UnvisitedPositions : \A k \in UnvisitedPositions : i <= k]

\* C5: getDefaultNextState returns the first entry of possibleStates, in
\* declared order, that is not visited, and possibleStates[0] when all are.
C5_DefaultIsFirstUnvisited ==
    getDefaultNextState(cfg.possibleStates, visitedStates) = DeclaredOrderFallback

\* C5 witness: getNextState has just fallen back while the first entry of the
\* catalog is visited and a later one is not.
C5_Witness ==
    /\ loop.pc = "got"
    /\ loop.cand = <<>>
    /\ cfg.possibleStates[1] \in visitedStates
    /\ UnvisitedPositions # {}
    /\ loop.arg = DeclaredOrderFallback

\* the candidate getNextState validates: the text it extracts from the message
Candidate ==
    IF cfg.class = "original" THEN ExtractOriginal(<<loop.cand>>)
    ELSE ExtractText(<<loop.cand>>)

CandidateInCatalog == \E s \in Catalog : Candidate = <<s>>

C7_NextStateInCatalog ==
    /\ loop.pc = "got" => loop.arg \in Catalog
    /\ cfg.driver = "oracle" => loop.err # "invalid"

\* C7 witness: the oracle loop has made a transition to the state getNextState
\* returned for an answer outside the catalog.
C7_Witness ==
    /\ cfg.driver = "oracle"
    /\ loop.pc = "ret"
    /\ loop.cand = <<"Z">>
    /\ ev.type = "transition"
    /\ ev.ok

\* C8 (as claimed): the state getNextState returns to the oracle loop differs
\* from the machine's current state.
C8_NextStateDiffers ==
    (cfg.driver = "oracle" /\ loop.pc = "got") => loop.arg # state

\* C9 (as claimed): in a table-loop iteration in which an instruction action
\* has called transition(), the loop issues no transition of its own: at most
\* one transition per iteration.
C9_OneTransitionPerIteration ==
    cfg.driver = "table" =>
        /\ Len(iterTrans) <= 1
        /\ \A i, j \in 1..Len(iterTrans) :
                i < j => ~(iterTrans[i] = "action" /\ iterTrans[j] = "loop")

\* C10 (as claimed): a failure raised by an instruction action is contained:
\* no instruction of that pass whose condition holds is left out, and the run
\* loop is not aborted by it.
C10_InstructionFailureContained ==
    /\ ~skipped
    /\ ~(loop.pc = "threw" /\ loop.err = "instruction")

\* the machine is driven by one of the two run loops
InRun == cfg.driver \in {"oracle", "table"}

\* the next step of the program is a transition() call
TransitionDue ==
    \/ Running(LoopId) /\ loop.pc = "call"
    \/ \E p \in PassIds : Running(p) /\ passes[p].ph = "call"

\* the next step of the program starts an instruction's action
ActionDue ==
    \E p \in PassIds :
        /\ Running(p)
        /\ passes[p].ph = "scan"
        /\ NextApplicable(passes[p].i, state, data) <= Len(Instrs)

\* C11 (as claimed): once the goal predicate is true during a run, no
\* instruction action is started and no transition() call is made.
C11_NothingAfterGoal ==
    (InRun /\ goalReached) => (~TransitionDue /\ ~ActionDue)

\* a step of a program whose machine is driven by a run loop
RunStep == InRun /\ Next

\* The run loops under JavaScript's scheduling: synchronous code and queued
\* microtasks run, a timer that was set fires, and a request that was sent
\* settles (it is answered or it fails). Nothing is assumed of a library
\* caller.
FairSpec == Spec /\ WF_vars(RunStep)

\* the run loop has ended: runStateMachine has returned or thrown
RunEnded == loop.pc \in {"done", "threw"}

\* every answer of the oracle is the state getNextState read as current
OracleEchoes == loop.pc = "got" => loop.cand = <<loop.cur>>

\* C12 (as claimed): an oracle-driven run whose oracle always answers the
\* current state and whose goal predicate is never satisfied ends (as faulted)
\* after finitely many iterations. No rejection goes unhandled: the process is
\* not ended from outside the loop.
C12_EchoRunEnds ==
    (cfg.driver = "oracle" /\ []OracleEchoes /\ []~goalReached /\ []~unhandled)
        => <>RunEnded

\* the table loop has stopped at a state that has no entry in stateTransitions
NoSuccessorStop == cfg.driver = "table" /\ loop.pc = "done" /\ loop.err = "nosucc"

\* nothing of the program is left to run
Quiescent ==
    /\ stack = <<>>
    /\ mq = <<>>
    /\ \A p \in PassIds : ~passes[p].live

\* C13: under the table loop every transition() the loop makes targets the
\* stateTransitions entry of the state the machine is in (and moves the
\* machine there when the call succeeds), and the oracle is never asked; when
\* the current state has no entry the loop logs the error and stops there, the
\* state unchanged, and no transition or other step follows.
C13_TableFollowsMap ==
    /\ [](cfg.driver = "table" => loop.pc \notin {"timer", "oracle", "got"})
    /\ [](NoSuccessorStop =>
            (Quiescent /\ state \notin DOMAIN stateTransitions))
    /\ [][cfg.driver = "table" =>
            /\ (ev'.type = "transition" /\ ev'.by = "loop") =>
                    /\ state \in DOMAIN stateTransitions
                    /\ ev'.target = stateTransitions[state]
                    /\ ev'.ok => state' = stateTransitions[state]
            /\ (Running(LoopId) /\ loop.pc = "exec"
                    /\ state \notin DOMAIN stateTransitions) =>
                    /\ NoSuccessorStop'
                    /\ ev'.type # "transition"
                    /\ state' = state
                    /\ visitedStates' = visitedStates]_vars

\* C13 witness: a table run has followed the map from its initial state and
\* then stopped in a state without an entry.
C13_Witness ==
    /\ NoSuccessorStop
    /\ cfg.initialState \in DOMAIN stateTransitions
    /\ stateTransitions[cfg.initialState] \in visitedStates
    /\ state \notin DOMAIN stateTransitions

\* C14 (as claimed): a run that has ended reports "Goal reached" only if the
\* goal predicate is true at that point, and a run that ended because the
\* current state has no successor does not report "Goal reached".
C14_StatusUnambiguous ==
    /\ (loop.pc = "done" /\ loop.report = "goal") => goalReached
    /\ NoSuccessorStop => loop.report # "goal"

\* no instruction's condition holds for the machine as it is
NoConditionHolds == \A j \in 1..Len(Instrs) : ~Cond(j, state, data)

\* C15: an executeInstructions() invocation that starts while no instruction's
\* condition holds ends in the same step without running an action, and
\* leaves the data bag, the current state and visitedStates unchanged.
C15_NoOpPass ==
    [][\A p \in PassIds :
          (Running(p) /\ passes[p].ph = "scan" /\ passes[p].i = 1 /\ NoConditionHolds)
            => /\ ev' = NoOpPassEvent
               /\ ~passes'[p].live
               /\ data' = data
               /\ state' = state
               /\ visitedStates' = visitedStates]_vars

\* C15 witness: an invocation has just ended without running an action on a
\* machine whose instruction list is not empty and whose data bag and
\* visitedStates hold something to lose.
C15_Witness ==
    /\ ev = NoOpPassEvent
    /\ Len(Instrs) > 0
    /\ data # EmptyData
    /\ Cardinality(visitedStates) >= 2

\* the oracle-driven run has stopped with the error of a failed request
OracleFailureStop == cfg.driver = "oracle" /\ loop.pc = "threw" /\ loop.err = "oracle"

\* C16 (as claimed): when the oracle request has failed and the run has
\* stopped with that error, no transition was made for that step: the current
\* state and visitedStates are those getNextState read before the request.
C16_OracleFailureLeavesMachine ==
    OracleFailureStop => (state = loop.cur /\ visitedStates = loop.seen)

NextStateRequested == InRun /\ loop.pc \in {"oracle", "got", "call"}

\* an executeInstructions() invocation has not finished
PassUnfinished == \E p \in PassIds : passes[p].live

\* C18 (as claimed): the run loop requests the next state, and makes the
\* resulting transition, only when every instruction action started before
\* has completed: no executeInstructions() invocation is unfinished then.
C18_RequestAfterActions == NextStateRequested => ~PassUnfinished

\* the action of p's current instruction has been called and has not returned
\* or settled: it is suspended on its work, or inside or just out of a
\* transition() call
ActionInProgress(p) == passes[p].live /\ passes[p].ph \in {"io", "call", "ret"}

\* p is about to call the action of an instruction
ActionStarting(p) ==
    /\ Running(p)
    /\ passes[p].ph = "scan"
    /\ NextApplicable(passes[p].i, state, data) <= Len(Instrs)

\* C19 (as claimed): during a run no two instruction actions are in progress
\* at the same time: while the action of one executeInstructions() invocation
\* is in progress, no other invocation has an action in progress or starts
\* one.
C19_OneActionAtATime ==
    InRun => \A p, q \in PassIds :
                (p # q /\ ActionInProgress(p))
                    => ~(ActionInProgress(q) \/ ActionStarting(q))

\* the oracle loop is about to evaluate goalReached() in its while condition
GoalCheckDue == cfg.driver = "oracle" /\ Running(LoopId) /\ loop.pc = "check"

\* p has work left: an action that has not completed, or an instruction not
\* yet reached whose condition holds
PassHasWorkLeft(p) ==
    /\ passes[p].live
    /\ \/ ActionInProgress(p)
       \/ NextApplicable(passes[p].i, state, data) <= Len(Instrs)

\* C20 (as claimed): when the oracle loop evaluates goalReached(), every
\* instruction whose condition holds in the state just entered has executed
\* its action: no executeInstructions() invocation has work left.
C20_InstructionsBeforeGoalCheck ==
    GoalCheckDue => \A p \in PassIds : ~PassHasWorkLeft(p)

\* the run loop's next step is a transition() call that moves the machine to
\* another state
LoopMoveDue ==
    /\ InRun
    /\ Running(LoopId)
    /\ loop.pc = "call"
    /\ TransitionAllowed(loop.arg)
    /\ loop.arg # state

\* C21 (as claimed): while the goal is not reached, the run loop moves the
\* machine out of a state only after executeInstructions() has been run with
\* the machine in that state, be it the initial state or a state an
\* instruction action's own transition() entered.
C21_PassInEveryState ==
    (LoopMoveDue /\ ~goalReached) => passRun

\* the tokens of a text before its first line break
RECURSIVE FirstLine(_)
FirstLine(text) ==
    IF text = <<>> \/ Head(text) = "\n" THEN <<>>
    ELSE <<Head(text)>> \o FirstLine(Tail(text))

\* the candidate as the specification words it: the first line of the
\* response, surrounding whitespace trimmed
TrimmedFirstLine(text) == Trim(FirstLine(Trim(text)))

\* C22 (as claimed): when the first trimmed line of the oracle's response is
\* a state of possibleStates other than the current state, getNextState
\* returns that state, whatever whitespace or further lines the response
\* carries, and does not fall back.
C22_FirstTrimmedLineAccepted ==
    (loop.pc = "got"
        /\ Len(TrimmedFirstLine(loop.cand)) = 1
        /\ TrimmedFirstLine(loop.cand)[1] \in Catalog
        /\ TrimmedFirstLine(loop.cand)[1] # loop.cur)
      => loop.arg = TrimmedFirstLine(loop.cand)[1]

\* the goal predicate is true of the machine as constructed
GoalAtStart ==
    GoalPredicate(cfg.goal, cfg.goalArg, {cfg.initialState}, EmptyData,
                  cfg.class = "agent")

\* the data bag as runStateMachine leaves it before its loop
DataAtStart ==
    {EmptyData, [EmptyData EXCEPT !["initialProblem"] = Str(cfg.initialProblem)]}

\* C23: a run that starts with the goal predicate true goes from its start
\* straight to its end: the loop is at its goal test, about to take it, or
\* has ended by it. No transition() call, no oracle request and no instruction
\* pass or action happens; the machine stays in its initial state with
\* visitedStates = {initialState} and no instruction has touched the data.
C23_GoalAtStartEndsRun ==
    (InRun /\ GoalAtStart) =>
        /\ loop.pc \in {"start", "check", "done"}
        /\ loop.pc \in {"start", "check"} => Running(LoopId)
        /\ loop.pc = "done" => (loop.err = "none" /\ Quiescent)
        /\ ~PassUnfinished
        /\ ~passRun
        /\ ev.type \notin {"transition", "pass"}
        /\ state = cfg.initialState
        /\ visitedStates = {cfg.initialState}
        /\ data \in DataAtStart

\* C23 witness: a run of a machine with instructions for its initial state
\* has ended at its first goal test.
C23_Witness ==
    /\ InRun
    /\ GoalAtStart
    /\ loop.pc = "done"
    /\ \E j \in 1..Len(Instrs) : Instrs[j].at = cfg.initialState

\* the oracle loop has run so far with every response rejected by validation
OnlyFallbacks == cfg.driver = "oracle" /\ fallbackMoves >= 0

\* C24: in an oracle-driven run in which every response is rejected, each
\* transition of the loop made while a state is unvisited goes to the first
\* unvisited state of possibleStates in declared order and adds exactly it to
\* visitedStates; after |possibleStates| - 1 transitions every state is
\* visited, and a run whose goal is 'visitedStates has X', X in
\* possibleStates, makes no more than |possibleStates| - 1 transitions.
C24_FallbackCoversCatalog ==
    /\ [][(OnlyFallbacks /\ fallbackMoves' = fallbackMoves + 1
                /\ visitedStates # Catalog)
            => /\ state' = DeclaredOrderFallback
               /\ state' \notin visitedStates
               /\ visitedStates' = visitedStates \cup {state'}]_vars
    /\ []((OnlyFallbacks /\ fallbackMoves >= Len(cfg.possibleStates) - 1)
            => visitedStates = Catalog)
    /\ []((OnlyFallbacks /\ cfg.goal = "hasVisited" /\ cfg.goalArg \in Catalog)
            => fallbackMoves <= Len(cfg.possibleStates) - 1)

\* C24 witness: a run with goal 'visitedStates has X' has ended after exactly
\* |possibleStates| - 1 transitions, all of them fallbacks, with every state
\* visited.
C24_Witness ==
    /\ OnlyFallbacks
    /\ cfg.goal = "hasVisited"
    /\ fallbackMoves = Len(cfg.possibleStates) - 1
    /\ visitedStates = Catalog
    /\ loop.pc = "done"

\* C25: in every reachable state, the fallback resolver applied to the
\* machine returns the machine's current state exactly when every state of
\* possibleStates is visited and the current state is possibleStates[0];
\* otherwise its result differs from the current state.
C25_FallbackIsCurrentOnlyWhenWrapped ==
    (getDefaultNextState(cfg.possibleStates, visitedStates) = state)
        <=> (Catalog \subseteq visitedStates /\ state = cfg.possibleStates[1])

\* C25 witness: in a run, getNextState has fallen back and returned the
\* current state, every state being visited.
C25_Witness ==
    /\ InRun
    /\ loop.pc = "got"
    /\ Rejected(cfg.class, <<loop.cand>>, loop.cur, cfg.possibleStates)
    /\ loop.arg = state
    /\ Catalog \subseteq visitedStates

\* the machine main.ts runs: createStateMachine("customerSupport") under
\* index.ts runStateMachine
CustomerSupportRun == cfg.name = "customerSupport" /\ cfg.driver = "oracle"

\* the state whose instruction sets the key
GuardedState(key) ==
    IF key = "issueIdentified" THEN "Troubleshooting" ELSE "Escalation"

\* in this step pass p runs the synchronous action of instruction j
SetActionFires(p, j) ==
    /\ passes[p].ph = "scan"
    /\ passes'[p].ph = "scan"
    /\ passes[p].i <= j
    /\ passes'[p].i = j + 1

\* C26: in the customerSupport machine under the oracle loop, issueIdentified
\* is set only if Troubleshooting is visited and escalationReason only if
\* Escalation is visited; a key that is set keeps its value; a guarded action
\* fires only while its key is unset, hence at most once per run.
C26_GuardedKeysSetOnce ==
    /\ [](CustomerSupportRun =>
            \A k \in {"issueIdentified", "escalationReason"} :
                ~Falsy(data[k]) => GuardedState(k) \in visitedStates)
    /\ [][CustomerSupportRun =>
            \A k \in {"issueIdentified", "escalationReason"} :
                ~Falsy(data[k]) => data'[k] = data[k]]_vars
    /\ [][CustomerSupportRun =>
            \A p \in PassIds : \A j \in 1..Len(Instrs) :
                SetActionFires(p, j) => /\ Falsy(data[Instrs[j].arg])
                                        /\ state = Instrs[j].at
                                        /\ data'[Instrs[j].arg] = SetValue(Instrs[j].arg)]_vars

\* C26 witness: both keys are set and a pass run on re-entering Escalation
\* ended without running an action.
C26_Witness ==
    /\ CustomerSupportRun
    /\ state = "Escalation"
    /\ ev = NoOpPassEvent
    /\ data["issueIdentified"] = True
    /\ data["escalationReason"] = SetValue("escalationReason")

\* a machine of createProblemSolvingStateMachine's catalog and instructions
\* under runStateMachine of agent-state-machine.ts
ProblemSolvingRun ==
    /\ cfg.driver = "table"
    /\ cfg.possibleStates = ProblemSolvingStates
    /\ cfg.instructions = ProblemSolvingInstructions

\* the targets an instruction action hands to transition()
ActionTargets ==
    {Instrs[j].arg : j \in {i \in 1..Len(Instrs) :
                                Instrs[i].act \in {"reformulate", "goto", "ioGoto"}}}

\* C27: in the problem-solving machine the successor table has an entry for
\* every state of possibleStates, and every entry's target and the target of
\* the ProblemReformulation action's own transition is in possibleStates; so
\* the loop never stops for a missing successor, no transition() call of the
\* run fails, and a run that ended either found the goal predicate true or an
\* instruction action raised.
C27_TableTotalOnCatalog ==
    ProblemSolvingRun =>
        /\ \A s \in Catalog : /\ s \in DOMAIN stateTransitions
                              /\ stateTransitions[s] \in Catalog
        /\ ActionTargets \subseteq Catalog
        /\ ~NoSuccessorStop
        /\ ev.type = "transition" => ev.ok
        /\ loop.pc = "done" => (loop.err = "none" /\ goalReached)
        /\ loop.pc = "threw" => loop.err = "instruction"

\* C27 witness: the loop has gone round the whole cycle and taken the table
\* entry of ProblemReformulation back to ProblemAnalysis.
C27_Witness ==
    /\ ProblemSolvingRun
    /\ visitedStates = Catalog
    /\ ev = TransitionEvent("ProblemAnalysis", "loop", TRUE)

====
